---- MODULE Spec2Model ----
(***************************************************************************)
(* Edit-statistics helpers of asr_vis (src/app.py): get_edit_dict,         *)
(* merge_edit_dicts, add_rate_keys and remove_zero_edits, acting on two    *)
(* edit tables.  A Python dict is modelled with its insertion order:       *)
(* [keys |-> sequence of keys, at |-> function from key to value].         *)
(* A Python exception is the err component of a call's result; the table   *)
(* keeps the mutations made before the exception.                          *)
(***************************************************************************)
EXTENDS Integers, Sequences, FiniteSets, TLC

\* Largest number of aligned positions in one record passed to a call.
MaxPos == 1

\* Largest number of calls made on the two tables in one run.
MaxCalls == 3

\* Largest number of csv lines main reads.
MaxLines == 2

\* Largest number of aligned positions in the alignment of one csv line.
MaxLinePos == 1

\* Token values a caller can pass: two ordinary tokens and the empty string
\* (a falsy str).
Tokens == {"a", "b", ""}

\* Token values main passes: characters of a str.
Chars == {"a", "b"}

\* Python's None, the fillvalue of zip_longest and a possible dict key.
NoneKey == "<None>"

Types == {"equal", "insert", "delete", "substitute"}

CountFields == {"insert", "delete", "reference_ct", "hypothesis_ct"}

RateFields == {"insert_rate", "delete_rate"}

VARIABLES char_edits, word_edits, pre, rec, last, err, ret, log

vars == <<char_edits, word_edits, pre, rec, last, err, ret, log>>

-----------------------------------------------------------------------------
(* Python dicts *)

EmptyDict == [keys |-> <<>>, at |-> [k \in {} |-> 0]]

Has(d, k) == k \in DOMAIN d.at

\* d[k] = v
Put(d, k, v) ==
    IF Has(d, k)
    THEN [keys |-> d.keys, at |-> [d.at EXCEPT ![k] = v]]
    ELSE [keys |-> Append(d.keys, k), at |-> (k :> v) @@ d.at]

\* d.pop(k)
Pop(d, k) ==
    [keys |-> SelectSeq(d.keys, LAMBDA x : x # k),
     at |-> [x \in (DOMAIN d.at) \ {k} |-> d.at[x]]]

\* The int 0 and the floats n/d as reduced fractions <<n, d>>; a true
\* division of a non-zero count never yields 0.0, so <<0, 1>> is the int 0.
IntZero == <<0, 1>>

RECURSIVE Gcd(_, _)
Gcd(a, b) == IF b = 0 THEN a ELSE Gcd(b, a % b)

\* n / d for d # 0
TrueDiv(n, d) == <<n \div Gcd(n, d), d \div Gcd(n, d)>>

-----------------------------------------------------------------------------
(* edit_dict_factory *)

\* defaultdict(lambda: {'ct': 0})
SubstituteFactory == [ct |-> 0]

\* the entry built by the factory's lambda
EntryFactory ==
    [keys |-> <<"insert", "delete", "reference_ct", "hypothesis_ct", "substitute">>,
     at |-> [insert |-> 0, delete |-> 0, reference_ct |-> 0, hypothesis_ct |-> 0,
             substitute |-> EmptyDict]]

edit_dict_factory == EmptyDict

\* d[k] on a defaultdict: a missing key is created with the default value
Touch(d, k, default) == IF Has(d, k) THEN d ELSE Put(d, k, default)

\* A call in progress: the table and the exception raised so far.
Ok(d) == [d |-> d, err |-> "none"]

Raise(d, e) == [d |-> d, err |-> e]

-----------------------------------------------------------------------------
(* get_edit_dict *)

Min(a, b) == IF a < b THEN a ELSE b

Max(a, b) == IF a > b THEN a ELSE b

\* s[i:j] for 0 <= i, 0 <= j: indices past the end are clamped
Slice(s, i, j) ==
    LET hi == Min(j, Len(s))
    IN IF i >= hi THEN <<>> ELSE [n \in 1..(hi - i) |-> s[i + n]]

\* zip_longest(hyp_chunk, ref_chunk, fillvalue=None)
ZipLongest(h, r) ==
    [n \in 1..Max(Len(h), Len(r)) |->
        <<IF n <= Len(h) THEN h[n] ELSE NoneKey,
          IF n <= Len(r) THEN r[n] ELSE NoneKey>>]

\* truth value of a token: None and '' are falsy
Truthy(tok) == tok # NoneKey /\ tok # ""

\* edit_dict[k][f] += 1
IncField(x, k, f) ==
    IF x.err # "none" THEN x
    ELSE LET d1 == Touch(x.d, k, EntryFactory)
             e == d1.at[k]
         IN IF ~Has(e, f) THEN Raise(d1, "KeyError")
            ELSE Ok(Put(d1, k, Put(e, f, e.at[f] + 1)))

\* edit_dict[r]['substitute'][h]['ct'] += 1
IncSubstitute(x, r, h) ==
    IF x.err # "none" THEN x
    ELSE LET d1 == Touch(x.d, r, EntryFactory)
             e == d1.at[r]
         IN IF ~Has(e, "substitute") THEN Raise(d1, "KeyError")
            ELSE LET s1 == Touch(e.at["substitute"], h, SubstituteFactory)
                     s2 == Put(s1, h, [s1.at[h] EXCEPT !.ct = @ + 1])
                 IN Ok(Put(d1, r, Put(e, "substitute", s2)))

\* EditPosition with the delete branch counting an insert of the reference token
EditPositionDeleteAsInsert(x, type, hyp_substr, ref_substr) ==
    LET x1 == IF Truthy(hyp_substr) THEN IncField(x, hyp_substr, "hypothesis_ct") ELSE x
        x2 == IF Truthy(ref_substr) THEN IncField(x1, ref_substr, "reference_ct") ELSE x1
    IN CASE type = "insert" -> IncField(x2, hyp_substr, "insert")
         [] type = "delete" -> IncField(x2, ref_substr, "insert")
         [] type = "substitute" -> IncSubstitute(x2, ref_substr, hyp_substr)
         [] OTHER -> x2

\* the body of the inner loop for one (hyp_substr, ref_substr) pair
EditPosition(x, type, hyp_substr, ref_substr) ==
    LET x1 == IF Truthy(hyp_substr) THEN IncField(x, hyp_substr, "hypothesis_ct") ELSE x
        x2 == IF Truthy(ref_substr) THEN IncField(x1, ref_substr, "reference_ct") ELSE x1
    IN CASE type = "insert" -> IncField(x2, hyp_substr, "insert")
         [] type = "delete" -> IncField(x2, ref_substr, "delete")
         [] type = "substitute" -> IncSubstitute(x2, ref_substr, hyp_substr)
         [] OTHER -> x2

RECURSIVE EditPairs(_, _, _, _)
EditPairs(x, type, pairs, n) ==
    IF n > Len(pairs) THEN x
    ELSE EditPairs(EditPosition(x, type, pairs[n][1], pairs[n][2]), type, pairs, n + 1)

\* the body of the outer loop for one alignment chunk
EditChunk(x, reference, hypothesis, align) ==
    LET hyp_chunk == Slice(hypothesis, align.hyp_start_idx, align.hyp_end_idx)
        ref_chunk == Slice(reference, align.ref_start_idx, align.ref_end_idx)
    IN EditPairs(x, align.type, ZipLongest(hyp_chunk, ref_chunk), 1)

RECURSIVE EditChunks(_, _, _, _, _)
EditChunks(x, reference, hypothesis, alignments, n) ==
    IF n > Len(alignments) THEN x
    ELSE EditChunks(EditChunk(x, reference, hypothesis, alignments[n]),
                    reference, hypothesis, alignments, n + 1)

get_edit_dict(reference, hypothesis, alignments, edit_dict) ==
    EditChunks(Ok(edit_dict), reference, hypothesis, alignments, 1)

-----------------------------------------------------------------------------
(* merge_edit_dicts *)

\* type(val) is int
IsInt(edit, val) == edit \in CountFields \/ (edit \in RateFields /\ val = IntZero)

\* a + b where b is an int; a count, or a rate plus the int 0
PyAdd(edit, a, b) == IF edit \in CountFields THEN a + b ELSE a

\* char_edits[char][edit] += val
MergeInt(x, char, edit, val) ==
    LET d1 == Touch(x.d, char, EntryFactory)
        e == d1.at[char]
    IN IF ~Has(e, edit) THEN Raise(d1, "KeyError")
       ELSE Ok(Put(d1, char, Put(e, edit, PyAdd(edit, e.at[edit], val))))

\* char_edits[char][edit][tgt_char] += ct, where ct is the dict {'ct': n}:
\* the target is created by the lookup and the += of two dicts raises
MergeTarget(x, char, edit, tgt_char) ==
    IF x.err # "none" THEN x
    ELSE LET d1 == Touch(x.d, char, EntryFactory)
             e == d1.at[char]
         IN IF ~Has(e, edit) THEN Raise(d1, "KeyError")
            ELSE LET s1 == Touch(e.at[edit], tgt_char, SubstituteFactory)
                 IN Raise(Put(d1, char, Put(e, edit, s1)), "TypeError")

RECURSIVE MergeTargets(_, _, _, _, _)
MergeTargets(x, char, edit, val, n) ==
    IF n > Len(val.keys) THEN x
    ELSE MergeTargets(MergeTarget(x, char, edit, val.keys[n]), char, edit, val, n + 1)

\* the body of the inner loop for one (edit, val) item
MergeEdit(x, char, edit, val) ==
    IF x.err # "none" THEN x
    ELSE IF IsInt(edit, val) THEN MergeInt(x, char, edit, val)
    ELSE IF edit \in RateFields THEN Raise(x.d, "AttributeError")
    ELSE MergeTargets(x, char, edit, val, 1)

RECURSIVE MergeEdits(_, _, _, _)
MergeEdits(x, char, edits, n) ==
    IF n > Len(edits.keys) THEN x
    ELSE MergeEdits(MergeEdit(x, char, edits.keys[n], edits.at[edits.keys[n]]),
                    char, edits, n + 1)

RECURSIVE MergeChars(_, _, _)
MergeChars(x, inc, n) ==
    IF n > Len(inc.keys) THEN x
    ELSE MergeChars(MergeEdits(x, inc.keys[n], inc.at[inc.keys[n]], 1), inc, n + 1)

merge_edit_dicts(main, inc) == MergeChars(Ok(main), inc, 1)

-----------------------------------------------------------------------------
(* add_rate_keys *)

\* ct/total if ct else 0
RateOf(ct, total) == IF ct # 0 THEN TrueDiv(ct, total) ELSE IntZero

\* d[substr]['substitute'][hyp_substr]['rate'] = sub_ct/ref_ct if sub_ct else 0
RateTarget(x, substr, hyp_substr, ref_ct) ==
    IF x.err # "none" THEN x
    ELSE LET e == x.d.at[substr]
             s == e.at["substitute"]
             sub_ct == s.at[hyp_substr].ct
         IN IF sub_ct # 0 /\ ref_ct = 0 THEN Raise(x.d, "ZeroDivisionError")
            ELSE Ok(Put(x.d, substr, Put(e, "substitute",
                     Put(s, hyp_substr, [ct |-> sub_ct, rate |-> RateOf(sub_ct, ref_ct)]))))

RECURSIVE RateTargets(_, _, _, _)
RateTargets(x, substr, ref_ct, n) ==
    IF x.err # "none" \/ n > Len(x.d.at[substr].at["substitute"].keys) THEN x
    ELSE RateTargets(RateTarget(x, substr, x.d.at[substr].at["substitute"].keys[n], ref_ct),
                     substr, ref_ct, n + 1)

\* d[substr][key] = ct/total if ct else 0, after reading edits[ctkey]
RateField(x, substr, ctkey, key, total) ==
    IF x.err # "none" THEN x
    ELSE LET e == x.d.at[substr]
         IN IF ~Has(e, ctkey) THEN Raise(x.d, "KeyError")
            ELSE IF e.at[ctkey] # 0 /\ total = 0 THEN Raise(x.d, "ZeroDivisionError")
            ELSE Ok(Put(x.d, substr, Put(e, key, RateOf(e.at[ctkey], total))))

\* the body of the loop for one (substr, edits) item
RateEntry(x, substr) ==
    IF x.err # "none" THEN x
    ELSE LET edits == x.d.at[substr]
         IN IF ~Has(edits, "hypothesis_ct") \/ ~Has(edits, "reference_ct")
            THEN Raise(x.d, "KeyError")
            ELSE LET hyp_ct == edits.at["hypothesis_ct"]
                     ref_ct == edits.at["reference_ct"]
                     x1 == RateField(x, substr, "insert", "insert_rate", hyp_ct)
                     x2 == RateField(x1, substr, "delete", "delete_rate", ref_ct)
                 IN IF x2.err # "none" THEN x2
                    ELSE IF ~Has(x2.d.at[substr], "substitute") THEN Raise(x2.d, "KeyError")
                    ELSE RateTargets(x2, substr, ref_ct, 1)

RECURSIVE RateEntries(_, _)
RateEntries(x, n) ==
    IF n > Len(x.d.keys) THEN x
    ELSE RateEntries(RateEntry(x, x.d.keys[n]), n + 1)

add_rate_keys(d) == RateEntries(Ok(d), 1)

-----------------------------------------------------------------------------
(* remove_zero_edits *)

\* val == 0
EqZero(edit, val) ==
    IF edit \in CountFields THEN val = 0
    ELSE IF edit \in RateFields THEN val[1] = 0
    ELSE FALSE

\* IsZeroEdit that never selects the occurrence counts
IsZeroEditKeepCounts(edit, val) ==
    /\ edit \notin {"reference_ct", "hypothesis_ct"}
    /\ (EqZero(edit, val) \/ (edit = "substitute" /\ Len(val.keys) = 0))

\* (val==0) or (edit=='substitute' and len(val)==0)
IsZeroEdit(edit, val) ==
    EqZero(edit, val) \/ (edit = "substitute" /\ Len(val.keys) = 0)

\* the inner loop over list(edits.items()), a snapshot of the entry
RECURSIVE PopZeros(_, _, _)
PopZeros(edits, items, n) ==
    IF n > Len(items.keys) THEN edits
    ELSE PopZeros(IF IsZeroEdit(items.keys[n], items.at[items.keys[n]])
                  THEN Pop(edits, items.keys[n]) ELSE edits,
                  items, n + 1)

RECURSIVE PopEntries(_, _)
PopEntries(d, n) ==
    IF n > Len(d.keys) THEN d
    ELSE PopEntries(Put(d, d.keys[n], PopZeros(d.at[d.keys[n]], d.at[d.keys[n]], 1)), n + 1)

\* remove_zero_edits that prunes a copy and leaves d as it was
remove_zero_edits_copy(d) == Ok(d)

remove_zero_edits(d) == Ok(PopEntries(d, 1))

-----------------------------------------------------------------------------
(* Records: what main reads from the csv and gets from the aligner *)

\* One aligned position: its edit type and the tokens it pairs.
PosOps(T) ==
    {[type |-> "equal", r |-> t, h |-> t] : t \in T}
    \cup {[type |-> "substitute", r |-> p[1], h |-> p[2]] :
            p \in {q \in T \X T : q[1] # q[2]}}
    \cup {[type |-> "insert", r |-> NoneKey, h |-> t] : t \in T}
    \cup {[type |-> "delete", r |-> t, h |-> NoneKey] : t \in T}

PosSeqs(T, max) == UNION {[1..n -> PosOps(T)] : n \in 0..max}

ReferenceOf(ps) ==
    LET s == SelectSeq(ps, LAMBDA p : p.type # "insert")
    IN [i \in 1..Len(s) |-> s[i].r]

HypothesisOf(ps) ==
    LET s == SelectSeq(ps, LAMBDA p : p.type # "delete")
    IN [i \in 1..Len(s) |-> s[i].h]

\* The chunks of a position sequence: maximal runs of one edit type.
RECURSIVE ChunksOf(_, _, _, _, _)
ChunksOf(ps, n, ri, hi, acc) ==
    IF n > Len(ps) THEN acc
    ELSE LET type == ps[n].type
             dr == IF type = "insert" THEN 0 ELSE 1
             dh == IF type = "delete" THEN 0 ELSE 1
             k == Len(acc)
         IN IF k > 0 /\ acc[k].type = type
            THEN ChunksOf(ps, n + 1, ri + dr, hi + dh,
                          [acc EXCEPT ![k].ref_end_idx = ri + dr, ![k].hyp_end_idx = hi + dh])
            ELSE ChunksOf(ps, n + 1, ri + dr, hi + dh,
                          Append(acc, [type |-> type,
                                       ref_start_idx |-> ri, ref_end_idx |-> ri + dr,
                                       hyp_start_idx |-> hi, hyp_end_idx |-> hi + dh]))

RecordOf(ps) ==
    [reference |-> ReferenceOf(ps), hypothesis |-> HypothesisOf(ps),
     alignments |-> ChunksOf(ps, 1, 0, 0, <<>>)]

\* the records with a well-formed alignment a caller can pass
Records == {RecordOf(ps) : ps \in PosSeqs(Tokens, MaxPos)}

\* the records main builds from the lines of the csv
LineRecords == {RecordOf(ps) : ps \in PosSeqs(Chars, MaxLinePos)}

NoRecord == RecordOf(<<>>)

\* The coverage invariants of an alignment: contiguous spans that cover both
\* sequences, insert with an empty reference span, delete with an empty
\* hypothesis span, equal and substitute with spans of one non-zero length.
ChunkShapeOk(c) ==
    LET rl == c.ref_end_idx - c.ref_start_idx
        hl == c.hyp_end_idx - c.hyp_start_idx
    IN /\ rl >= 0 /\ hl >= 0
       /\ c.type = "insert" => (rl = 0 /\ hl > 0)
       /\ c.type = "delete" => (hl = 0 /\ rl > 0)
       /\ c.type \in {"equal", "substitute"} => (rl = hl /\ rl > 0)

WellFormed(r) ==
    LET a == r.alignments
        n == Len(a)
    IN /\ \A i \in 1..n : ChunkShapeOk(a[i])
       /\ \A i \in 1..n :
            /\ a[i].ref_start_idx = (IF i = 1 THEN 0 ELSE a[i - 1].ref_end_idx)
            /\ a[i].hyp_start_idx = (IF i = 1 THEN 0 ELSE a[i - 1].hyp_end_idx)
       /\ (IF n = 0 THEN 0 ELSE a[n].ref_end_idx) = Len(r.reference)
       /\ (IF n = 0 THEN 0 ELSE a[n].hyp_end_idx) = Len(r.hypothesis)

\* Alignments that break the coverage invariants: one chunk dropped, one chunk
\* given another type, or one chunk repeated.
DropChunk(a, i) == [n \in 1..(Len(a) - 1) |-> IF n < i THEN a[n] ELSE a[n + 1]]

Broken(a) ==
    {DropChunk(a, i) : i \in 1..Len(a)}
    \cup {[a EXCEPT ![i].type = t] : i \in 1..Len(a), t \in Types}
    \cup {Append(a, a[i]) : i \in 1..Len(a)}

MalformedRecords ==
    {m \in UNION {{[r EXCEPT !.alignments = b] : b \in Broken(r.alignments)} : r \in Records} :
        ~WellFormed(m)}

-----------------------------------------------------------------------------
(* The run: calls of the four functions on two tables *)

Names == {"char_edits", "word_edits"}

Table(t) == IF t = "char_edits" THEN char_edits ELSE word_edits

Other(t) == IF t = "char_edits" THEN "word_edits" ELSE "char_edits"

Calls == Len(log.char_edits) + Len(log.word_edits)

Init ==
    /\ char_edits = edit_dict_factory
    /\ word_edits = edit_dict_factory
    /\ pre = edit_dict_factory
    /\ rec = NoRecord
    /\ last = [op |-> "init", tgt |-> "none"]
    /\ err = "none"
    /\ ret = "none"
    /\ log = [char_edits |-> <<>>, word_edits |-> <<>>]

\* A call f(t, ...) that mutates table t in place and returns it, or raises.
Call(op, t, r, x) ==
    /\ char_edits' = IF t = "char_edits" THEN x.d ELSE char_edits
    /\ word_edits' = IF t = "word_edits" THEN x.d ELSE word_edits
    /\ pre' = Table(t)
    /\ rec' = r
    /\ last' = [op |-> op, tgt |-> t]
    /\ err' = x.err
    /\ ret' = IF x.err = "none" THEN t ELSE "none"
    /\ log' = [log EXCEPT ![t] = Append(@, [op |-> op, rec |-> r])]

\* An exception is caught nowhere: it ends the run.
Running == err = "none" /\ Calls < MaxCalls

\* t = get_edit_dict(ref, hyp, alignments, t) on a well-formed record
Accumulate ==
    /\ Running
    /\ \E t \in Names, r \in Records :
         Call("accumulate", t, r,
              get_edit_dict(r.reference, r.hypothesis, r.alignments, Table(t)))

\* t = merge_edit_dicts(t, other)
Merge ==
    /\ Running
    /\ \E t \in Names :
         Call("merge", t, NoRecord, merge_edit_dicts(Table(t), Table(Other(t))))

\* t = add_rate_keys(t)
Derive ==
    /\ Running
    /\ \E t \in Names : Call("derive", t, NoRecord, add_rate_keys(Table(t)))

\* t = remove_zero_edits(t)
Sanitize ==
    /\ Running
    /\ \E t \in Names : Call("sanitize", t, NoRecord, remove_zero_edits(Table(t)))

Next == Accumulate \/ Merge \/ Derive \/ Sanitize

Spec == Init /\ [][Next]_vars

\* A batch of records accumulated into one table, as in main's loop, where
\* some record's alignment may break the coverage invariants.
BatchAccumulate ==
    /\ Running
    /\ \E r \in Records :
         Call("accumulate", "char_edits", r,
              get_edit_dict(r.reference, r.hypothesis, r.alignments, char_edits))

BatchAccumulateMalformed ==
    /\ Running
    /\ \E r \in MalformedRecords :
         Call("accumulate", "char_edits", r,
              get_edit_dict(r.reference, r.hypothesis, r.alignments, char_edits))

NextBatch == BatchAccumulate \/ BatchAccumulateMalformed

SpecBatch == Init /\ [][NextBatch]_vars

-----------------------------------------------------------------------------
(* main: one table through the loop over the lines, add_rate_keys and
   remove_zero_edits *)

\* char_edits = get_edit_dict(ref, hyp, cer.alignments[0], char_edits)
MainAccumulate ==
    /\ err = "none"
    /\ last.op \in {"init", "accumulate"}
    /\ Len(log.char_edits) < MaxLines
    /\ \E r \in LineRecords :
         Call("accumulate", "char_edits", r,
              get_edit_dict(r.reference, r.hypothesis, r.alignments, char_edits))

\* char_edits = add_rate_keys(char_edits), after the last line
MainDerive ==
    /\ err = "none"
    /\ last.op \in {"init", "accumulate"}
    /\ Call("derive", "char_edits", NoRecord, add_rate_keys(char_edits))

\* char_edits = remove_zero_edits(char_edits)
MainSanitize ==
    /\ err = "none"
    /\ last.op = "derive"
    /\ Call("sanitize", "char_edits", NoRecord, remove_zero_edits(char_edits))

NextMain == MainAccumulate \/ MainDerive \/ MainSanitize

SpecMain == Init /\ [][NextMain]_vars

-----------------------------------------------------------------------------
(* Reading tables *)

\* Python's == on tables: keys and values, whatever the insertion order.
CanonEntry(e) ==
    [f \in DOMAIN e.at |-> IF f = "substitute" THEN e.at[f].at ELSE e.at[f]]

Canon(d) == [k \in DOMAIN d.at |-> CanonEntry(d.at[k])]

\* the count f of symbol s, 0 for a symbol or a field that is not there
Ct(d, s, f) == IF Has(d, s) /\ Has(d.at[s], f) THEN d.at[s].at[f] ELSE 0

\* substitute[s][t].ct, 0 when it is not there
SubCt(d, s, t) ==
    IF Has(d, s) /\ Has(d.at[s], "substitute") /\ Has(d.at[s].at["substitute"], t)
    THEN d.at[s].at["substitute"].at[t].ct
    ELSE 0

RECURSIVE SumSeq(_, _)
SumSeq(cts, n) == IF n > Len(cts) THEN 0 ELSE cts[n] + SumSeq(cts, n + 1)

\* the sum of field f over the symbols of the table
SumCt(d, f) == SumSeq([i \in 1..Len(d.keys) |-> Ct(d, d.keys[i], f)], 1)

\* the sum of substitute[s][t].ct over the targets t
SumSub(d, s) ==
    IF Has(d, s) /\ Has(d.at[s], "substitute")
    THEN LET targets == d.at[s].at["substitute"].keys
         IN SumSeq([i \in 1..Len(targets) |-> SubCt(d, s, targets[i])], 1)
    ELSE 0

\* every key a table or a record can hold
AllKeys == Tokens \cup {NoneKey}

Target == Table(last.tgt)

Returned(op) == last.op = op /\ err = "none"

\* the calls made on table t were all get_edit_dict
OnlyAccumulated(l) == \A i \in 1..Len(l) : l[i].op = "accumulate"

Front(l) == SubSeq(l, 1, Len(l) - 1)

-----------------------------------------------------------------------------
(* The positions of a record, read off its alignment *)

SpanLen(c) ==
    Max(c.ref_end_idx - c.ref_start_idx, c.hyp_end_idx - c.hyp_start_idx)

\* <<n, i>>: the i-th position of the n-th chunk, for the chunks of one type
Positions(r, type) ==
    UNION {{<<n, i>> : i \in 1..SpanLen(r.alignments[n])} :
             n \in {m \in 1..Len(r.alignments) : r.alignments[m].type = type}}

RefTok(r, p) ==
    LET c == r.alignments[p[1]]
        k == c.ref_start_idx + p[2]
    IN IF k <= c.ref_end_idx /\ k <= Len(r.reference) THEN r.reference[k] ELSE NoneKey

HypTok(r, p) ==
    LET c == r.alignments[p[1]]
        k == c.hyp_start_idx + p[2]
    IN IF k <= c.hyp_end_idx /\ k <= Len(r.hypothesis) THEN r.hypothesis[k] ELSE NoneKey

-----------------------------------------------------------------------------
(* C1 *)

\* C1: a record accumulated by get_edit_dict into an empty table leaves the
\* sum of reference_ct equal to the length of the reference and the sum of
\* hypothesis_ct equal to the length of the hypothesis.
OccurrenceConservation ==
    (Returned("accumulate") /\ pre = edit_dict_factory) =>
        /\ SumCt(Target, "reference_ct") = Len(rec.reference)
        /\ SumCt(Target, "hypothesis_ct") = Len(rec.hypothesis)

-----------------------------------------------------------------------------
(* C2 *)

\* C2: a call of get_edit_dict that returns has raised, for every symbol,
\* insert by the number of positions of insert chunks whose hypothesis token
\* it is, delete by the number of positions of delete chunks whose reference
\* token it is, and substitute[s][t].ct by the number of positions of
\* substitute chunks pairing s with t; positions of equal chunks raise no
\* insert, delete or substitute counter.
EditTypeRule ==
    Returned("accumulate") =>
        \A s \in AllKeys \cup DOMAIN Target.at :
            /\ Ct(Target, s, "insert") - Ct(pre, s, "insert")
                 = Cardinality({p \in Positions(rec, "insert") : HypTok(rec, p) = s})
            /\ Ct(Target, s, "delete") - Ct(pre, s, "delete")
                 = Cardinality({p \in Positions(rec, "delete") : RefTok(rec, p) = s})
            /\ \A t \in AllKeys \cup DOMAIN Target.at :
                 SubCt(Target, s, t) - SubCt(pre, s, t)
                   = Cardinality({p \in Positions(rec, "substitute") :
                                    RefTok(rec, p) = s /\ HypTok(rec, p) = t})

\* a delete accumulated into a table that already holds edits of another symbol
WitnessEditTypeRule ==
    /\ Returned("accumulate")
    /\ Positions(rec, "delete") # {}
    /\ \E s \in DOMAIN pre.at :
         /\ \A p \in Positions(rec, "delete") : RefTok(rec, p) # s
         /\ SumSub(pre, s) > 0
         /\ SumSub(Target, s) = SumSub(pre, s)

-----------------------------------------------------------------------------
(* C3 *)

RecordsOf(l) == [i \in 1..Len(l) |-> l[i].rec]

\* get_edit_dict called on each record in turn, starting from an empty table
RECURSIVE Sequential(_, _, _)
Sequential(x, recs, n) ==
    IF n > Len(recs) \/ x.err # "none" THEN x
    ELSE Sequential(get_edit_dict(recs[n].reference, recs[n].hypothesis,
                                  recs[n].alignments, x.d), recs, n + 1)

\* C3: when two tables were built by get_edit_dict alone, merging one into
\* the other, in either order, returns the table that get_edit_dict builds
\* from all their records in sequence.
PartitionedEqualsSequential ==
    (/\ last.op = "merge"
     /\ OnlyAccumulated(Front(log[last.tgt]))
     /\ OnlyAccumulated(log[Other(last.tgt)])) =>
        /\ err = "none"
        /\ Canon(Target)
             = Canon(Sequential(Ok(edit_dict_factory),
                                RecordsOf(Front(log[last.tgt])) \o RecordsOf(log[Other(last.tgt)]),
                                1).d)

-----------------------------------------------------------------------------
(* C4 *)

MergeReturns(A, B) == merge_edit_dicts(A, B).err = "none"

Merged(A, B) == merge_edit_dicts(A, B).d

\* the tables of the run: the two tables and the one before the last call
RunTables == {char_edits, word_edits, pre}

\* C4: on tables built by get_edit_dict, merge_edit_dicts always returns, is
\* commutative and associative, and has the empty table as identity.
MergeCommutativeMonoid ==
    (Returned("accumulate") /\ OnlyAccumulated(log.char_edits) /\ OnlyAccumulated(log.word_edits)) =>
        \A A \in RunTables, B \in RunTables, C \in RunTables :
           /\ MergeReturns(A, B) /\ MergeReturns(B, A)
           /\ Canon(Merged(A, B)) = Canon(Merged(B, A))
           /\ MergeReturns(A, edit_dict_factory)
           /\ Canon(Merged(A, edit_dict_factory)) = Canon(A)
           /\ MergeReturns(B, C) /\ MergeReturns(Merged(A, B), C)
           /\ MergeReturns(A, Merged(B, C))
           /\ Canon(Merged(Merged(A, B), C)) = Canon(Merged(A, Merged(B, C)))

-----------------------------------------------------------------------------
(* C5 *)

\* the rate Derive is to give: ct/total when total > 0, else 0
DeriveRate(ct, total) == IF total > 0 THEN TrueDiv(ct, total) ELSE IntZero

RawCountsOf(d) ==
    [s \in DOMAIN d.at |->
        [f \in CountFields \cup {"substitute"} |->
            IF f = "substitute"
            THEN [t \in DOMAIN d.at[s].at[f].at |-> d.at[s].at[f].at[t].ct]
            ELSE d.at[s].at[f]]]

\* C5: on a table built by get_edit_dict alone, add_rate_keys returns without
\* a division by zero, sets insert_rate to insert/hypothesis_ct when
\* hypothesis_ct > 0 and to 0 otherwise, delete_rate to delete/reference_ct
\* when reference_ct > 0 and to 0 otherwise, the rate of every target to
\* substitute[s][t].ct/reference_ct[s], and changes no raw count.
DeriveResult ==
    (last.op = "derive" /\ OnlyAccumulated(Front(log[last.tgt]))) =>
        /\ err = "none"
        /\ RawCountsOf(Target) = RawCountsOf(pre)
        /\ \A s \in DOMAIN Target.at :
             LET e == Target.at[s].at
             IN /\ "insert_rate" \in DOMAIN e
                /\ e.insert_rate = DeriveRate(e.insert, e.hypothesis_ct)
                /\ "delete_rate" \in DOMAIN e
                /\ e.delete_rate = DeriveRate(e.delete, e.reference_ct)
                /\ \A t \in DOMAIN e.substitute.at :
                     /\ e.reference_ct > 0
                     /\ "rate" \in DOMAIN e.substitute.at[t]
                     /\ e.substitute.at[t].rate = TrueDiv(e.substitute.at[t].ct, e.reference_ct)

-----------------------------------------------------------------------------
(* C7 *)

\* C7: get_edit_dict raises when the alignment it is given breaks the
\* coverage invariants.
FailFastOnMalformed ==
    (last.op = "accumulate" /\ ~WellFormed(rec)) => err # "none"

-----------------------------------------------------------------------------
(* C8 *)

NoCall(op) ==
    \A t \in Names : \A i \in 1..Len(log[t]) : log[t][i].op # op

\* C8: in a table reached by calls of get_edit_dict on well-formed records and
\* of merge_edit_dicts that returned, every symbol has insert <= hypothesis_ct,
\* delete <= reference_ct and the sum of its substitute counts <= reference_ct.
EditsWithinOccurrences ==
    (err = "none" /\ NoCall("derive") /\ NoCall("sanitize")) =>
        \A t \in Names : \A s \in DOMAIN Table(t).at :
            /\ Ct(Table(t), s, "insert") <= Ct(Table(t), s, "hypothesis_ct")
            /\ Ct(Table(t), s, "delete") <= Ct(Table(t), s, "reference_ct")
            /\ SumSub(Table(t), s) <= Ct(Table(t), s, "reference_ct")

-----------------------------------------------------------------------------
(* C9 *)

\* C9: whatever calls of get_edit_dict, merge_edit_dicts and add_rate_keys
\* were made, every rate field of a table is the rate Derive gives for the
\* table's current counts.
RatesFollowCounts ==
    NoCall("sanitize") =>
        \A t \in Names : \A s \in DOMAIN Table(t).at :
            LET e == Table(t).at[s].at
            IN /\ "insert_rate" \in DOMAIN e =>
                    e.insert_rate = DeriveRate(e.insert, e.hypothesis_ct)
               /\ "delete_rate" \in DOMAIN e =>
                    e.delete_rate = DeriveRate(e.delete, e.reference_ct)
               /\ \A x \in DOMAIN e.substitute.at :
                    "rate" \in DOMAIN e.substitute.at[x] =>
                        e.substitute.at[x].rate = DeriveRate(e.substitute.at[x].ct, e.reference_ct)

-----------------------------------------------------------------------------
(* C6 *)

OccurrenceFields == {"reference_ct", "hypothesis_ct"}

\* the value of field f of entry e is zero, or an empty substitute
ZeroValued(e, f) ==
    \/ f \in CountFields /\ e.at[f] = 0
    \/ f \in RateFields /\ e.at[f][1] = 0
    \/ f = "substitute" /\ e.at[f].keys = <<>>

\* C6 as stated: every entry returned by remove_zero_edits still holds the
\* reference_ct and the hypothesis_ct it held, also when they are zero, and
\* has lost only zero-valued insert, delete, insert_rate, delete_rate and an
\* empty substitute.
SanitizeKeepsOccurrenceCounts ==
    last.op = "sanitize" =>
        \A s \in DOMAIN pre.at :
            /\ Has(Target, s)
            /\ \A f \in OccurrenceFields : Has(pre.at[s], f) => Has(Target.at[s], f)
            /\ \A f \in (DOMAIN pre.at[s].at) \ (DOMAIN Target.at[s].at) :
                 f \in OccurrenceFields \/ ZeroValued(pre.at[s], f)

\* C6 as amended: an entry returned by remove_zero_edits holds reference_ct
\* (hypothesis_ct) exactly when the entry held it with a non-zero value; the
\* fields it has lost are zero-valued insert, delete, reference_ct,
\* hypothesis_ct, insert_rate, delete_rate and an empty substitute.
SanitizeDropsZeroCounts ==
    last.op = "sanitize" =>
        \A s \in DOMAIN pre.at :
            /\ Has(Target, s)
            /\ \A f \in OccurrenceFields :
                 Has(Target.at[s], f) <=> (Has(pre.at[s], f) /\ pre.at[s].at[f] # 0)
            /\ \A f \in (DOMAIN pre.at[s].at) \ (DOMAIN Target.at[s].at) :
                 ZeroValued(pre.at[s], f)

\* an entry with a zero reference_ct and a non-zero hypothesis_ct was sanitized
WitnessSanitizeDropsZeroCounts ==
    /\ Returned("sanitize")
    /\ \E s \in DOMAIN pre.at :
         /\ Has(pre.at[s], "reference_ct") /\ pre.at[s].at["reference_ct"] = 0
         /\ ~Has(Target.at[s], "reference_ct")
         /\ Has(Target.at[s], "hypothesis_ct")

-----------------------------------------------------------------------------
(* C10 *)

\* the fields of entry e that are not zero-valued, in their order
KeptFields(e) == SelectSeq(e.keys, LAMBDA f : ~ZeroValued(e, f))

\* C10 as stated: after remove_zero_edits(T) returns, T holds the fields and
\* values it held before, and the table returned is not T.
SanitizeLeavesInput ==
    last.op = "sanitize" => (Target = pre /\ ret # last.tgt)

\* C10 as amended: remove_zero_edits(T) returns T itself, pruned in place:
\* T keeps its symbols, and each entry keeps, with their values, exactly the
\* fields that are not zero-valued.
SanitizeInPlace ==
    last.op = "sanitize" =>
        /\ ret = last.tgt
        /\ Target.keys = pre.keys
        /\ \A s \in DOMAIN pre.at :
             /\ Target.at[s].keys = KeptFields(pre.at[s])
             /\ \A f \in DOMAIN Target.at[s].at : Target.at[s].at[f] = pre.at[s].at[f]

\* a table lost a zero field of one entry and kept a substitute of another
WitnessSanitizeInPlace ==
    /\ Returned("sanitize")
    /\ ret = last.tgt
    /\ \E s \in DOMAIN pre.at : Len(Target.at[s].keys) < Len(pre.at[s].keys)
    /\ \E s \in DOMAIN pre.at :
         Has(Target.at[s], "substitute") /\ SumSub(Target, s) > 0

====
